---- MODULE Spec2Model ----
(***************************************************************************)
(* The download registry of Chanomhub-Desktop (src-tauri/src/main.rs and   *)
(* src-tauri/src/state.rs): the ActiveDownloads map and its cancellation   *)
(* tokens, the active_downloads.json file, the helper processes and their  *)
(* stream-reader tasks, and the Tauri commands that mutate the registry.   *)
(*                                                                         *)
(* Every command takes the RwLock<ActiveDownloads> write lock for the      *)
(* whole of its critical section and does not await inside it, so each     *)
(* critical section is one action.  What a critical section shows to the   *)
(* outside while it runs (the events it emits before it saves) is kept in  *)
(* outbox, with the state of the file at the moment of each emission.      *)
(*                                                                         *)
(* f32 values are integers in tenths (0.1 is 1, 10.0 is 100, 100.0 is      *)
(* 1000); F32Inf is the f32 infinity an out-of-range f64 casts to.         *)
(***************************************************************************)
EXTENDS Integers, Sequences, FiniteSets, TLC

VARIABLES
    downloads,   \* ActiveDownloads.downloads: HashMap<String, DownloadInfo>
    tokens,      \* ActiveDownloads.tokens: the ids that have a CancellationToken
    signalled,   \* ids whose latest CancellationToken has had cancel() called
    disk,        \* active_downloads.json
    helpers,     \* per id, the helper processes whose reader task is running
    reporting,   \* per id, reader tasks between the Terminated check and its report
    unarchiving, \* ids with an unarchive_file call between its first and last update
    outbox,      \* what the last operation emitted, in order
    last,        \* the last operation: its name, its id argument and its result
    ops,         \* the number of operations so far
    games,       \* AppState.games: Vec<DownloadedGameInfo>, as managed and as in config.json
    attached,    \* per game id, what the last save_launch_config that found it attached
    rw,          \* RwLock<ActiveDownloads>: the tasks that hold it for writing, for reading
    mx,          \* Mutex<AppState>: the tasks that hold it
    pc           \* per task, where it is in its handler when the handler is run step by step

vars == <<downloads, tokens, signalled, disk, helpers, reporting, unarchiving, outbox, last, ops, games, attached, rw, mx, pc>>

(***************************************************************************)
(* Bounds                                                                  *)
(***************************************************************************)
MaxHelpers == 1   \* helper processes running at once for one download id
MaxOps == 5       \* operations in one run, restarts of the application included

(***************************************************************************)
(* Values                                                                  *)
(***************************************************************************)
None == "None"                 \* Option::None of an optional string
NonStr == "<not a string>"     \* a JSON value that is present but no string
EmptyId == ""                  \* the downloadId of length 0
Ids == {"d1", "d2"}            \* download ids the commands are called with
Bystander == "d2"              \* an id that only start and cancel are called with
Now == "2026-01-01T00:00:00+00:00"   \* chrono::Utc::now().to_rfc3339()

ProgressStarted == 1       \* 0.1
ProgressConfirmed == 100   \* 10.0
ProgressComplete == 1000   \* 100.0
F32Inf == 1000000          \* f32::INFINITY
JsonNull == -2             \* the JSON null a non-finite f32 is written as
NoNumber == -1             \* Option::None of an optional number

Terminal == {"completed", "failed", "cancelled"}
InFlight == {"starting", "downloading"}

CancelledMsg == "Download cancelled by user"
InterruptedMsg == "Download interrupted due to application restart"
ProcessErrorMsg == "WebView2 process error"
TerminatedMsg == "WebView2 process terminated unexpectedly with code"

DownloadInfo(id, filename, url, progress, status, path, error, provider, downloaded_at, extracted, extracted_path, extraction_status, extraction_progress) ==
    [id |-> id, filename |-> filename, url |-> url, progress |-> progress,
     status |-> status, path |-> path, error |-> error, provider |-> provider,
     downloaded_at |-> downloaded_at, extracted |-> extracted,
     extracted_path |-> extracted_path, extraction_status |-> extraction_status,
     extraction_progress |-> extraction_progress]

\* HashMap::insert: the entry of key k is created or overwritten
Insert(m, k, v) == [x \in (DOMAIN m) \cup {k} |-> IF x = k THEN v ELSE m[x]]

EmptyMap == [x \in {} |-> None]

(***************************************************************************)
(* Persistence (state.rs)                                                  *)
(***************************************************************************)
\* serde_json writes a finite f32 as a number and a non-finite one as null
f32_to_json(x) == IF x = F32Inf THEN JsonNull ELSE x

\* Serialize for ActiveDownloads: the downloads map; tokens are skipped
to_json(ds) == [k \in DOMAIN ds |-> [ds[k] EXCEPT !.progress = f32_to_json(@)]]

\* Deserialize for ActiveDownloads: null is no f32, and the whole parse fails
from_json_ok(js) == \A k \in DOMAIN js : js[k].progress # JsonNull
from_json(js) == js

NoFile == [state |-> "absent", json |-> EmptyMap]
Truncated == [state |-> "truncated", json |-> EmptyMap]

\* save_active_downloads_to_file: io is what the file system does
\*   "ok"            the file is replaced by the serialized registry
\*   "create_failed" create_dir_all or File::create fails: the file is as before
\*   "write_failed"  File::create truncated the file and write_all fails
save_active_downloads_to_file(dsk, ds, io) ==
    CASE io = "ok" -> [state |-> "written", json |-> to_json(ds)]
      [] io = "create_failed" -> dsk
      [] OTHER -> Truncated

\* C26, mutant: the error of a failed save is swallowed
SaveResult_swallowed(io) == "Ok"

\* the Result of save_active_downloads_to_file, which the callers propagate with ?
SaveResult(io) == IF io = "ok" THEN "Ok" ELSE "Err(save)"

\* load_active_downloads_from_file: [ok, downloads]
load_active_downloads_from_file(dsk) ==
    CASE dsk.state = "absent" -> [ok |-> TRUE, downloads |-> EmptyMap]
      [] dsk.state = "written" /\ from_json_ok(dsk.json) ->
            [ok |-> TRUE, downloads |-> from_json(dsk.json)]
      [] OTHER -> [ok |-> FALSE, downloads |-> EmptyMap]

\* C5, mutant: the reconciliation misses the records that are Starting
cleanup_misses_starting(ds) ==
    [k \in DOMAIN ds |->
        IF ds[k].status = "downloading"
        THEN [ds[k] EXCEPT !.status = "failed", !.error = InterruptedMsg]
        ELSE ds[k]]

\* C29, mutant: the reconciliation drops the records that were left in flight
cleanup_drops_in_flight(ds) ==
    [k \in {x \in DOMAIN ds : ds[x].status \notin {"starting", "downloading"}} |-> ds[k]]

\* cleanup_active_downloads
cleanup_active_downloads(ds) ==
    [k \in DOMAIN ds |->
        IF ds[k].status = "starting" \/ ds[k].status = "downloading"
        THEN [ds[k] EXCEPT !.status = "failed", !.error = InterruptedMsg]
        ELSE ds[k]]

\* main's setup: load, fall back to the default on an error, reconcile
loaded_downloads(dsk) ==
    LET r == load_active_downloads_from_file(dsk)
    IN  IF r.ok THEN r.downloads ELSE EmptyMap

initial_downloads(dsk) == cleanup_active_downloads(loaded_downloads(dsk))

\* C22, mutant: a handle is loaded for every record of the file
loaded_tokens_of_records(dsk) == DOMAIN loaded_downloads(dsk)

\* the tokens of the registry main manages: #[serde(skip)] leaves them out of the
\* file and Deserialize fills the field with its Default, as ActiveDownloads::default
loaded_tokens(dsk) == {}

(***************************************************************************)
(* Outward effects: app.emit and show_download_notification                *)
(***************************************************************************)
\* the file holds the record of id as it is in memory (ds) at this moment
FileHolds(dsk, ds, id) ==
    /\ dsk.state = "written"
    /\ id \in DOMAIN dsk.json
    /\ id \in DOMAIN ds
    /\ dsk.json[id] = to_json(ds)[id]

\* app.emit(name, {id, ...}) while the file is dsk and the registry is ds
Emit(name, id, dsk, ds) ==
    [kind |-> "emit", name |-> name, id |-> id, saved |-> FileHolds(dsk, ds, id)]

\* show_download_notification(app, title, ...)
Notify(title, id, dsk, ds) ==
    [kind |-> "notify", name |-> title, id |-> id, saved |-> FileHolds(dsk, ds, id)]

(***************************************************************************)
(* webview2_response (main.rs 643-914)                                     *)
(***************************************************************************)
\* a status event: the fields of the JSON object, None / NoNumber when absent
Event(id, status, progress, path, filename, message, started) ==
    [downloadId |-> id, status |-> status, progress |-> progress, path |-> path,
     filename |-> filename, message |-> message, downloadStarted |-> started]

\* Value::as_str: a value that is no string is None
as_str(v) == IF v = NonStr THEN None ELSE v

\* response.get("status").and_then(as_str).unwrap_or("unknown")
status_of(ev) == IF as_str(ev.status) = None THEN "unknown" ELSE ev.status

filename_of(ev) == IF as_str(ev.filename) = None THEN "Unknown file" ELSE ev.filename

\* the record registered from a start notification (690-704)
started_download(ev) ==
    DownloadInfo(ev.downloadId, filename_of(ev), "", ProgressStarted, "downloading",
                 None, None, "webview2", None, FALSE, None, "idle", 0)

\* download_started && !downloads.contains_key(download_id) (678)
registers_start(ds, ev) == ev.downloadStarted /\ ev.downloadId \notin DOMAIN ds

after_start_notice(ds, ev) ==
    IF registers_start(ds, ev) THEN Insert(ds, ev.downloadId, started_download(ev)) ELSE ds

\* C36, mutant: a progress event applies whatever progress the record has
progress_applies_backwards(d, ev) == ev.progress # NoNumber

\* the progress arm's condition (788-789)
progress_applies(d, ev) ==
    /\ ev.progress # NoNumber
    /\ (ev.progress > d.progress \/ ev.downloadStarted)

\* the match on status for a record that exists (721-819)
update_download(d, ev) ==
    LET status == status_of(ev) IN
    CASE status = "success" /\ as_str(ev.path) # None ->
            [d EXCEPT !.status = "completed", !.progress = ProgressComplete,
                      !.path = ev.path, !.downloaded_at = Now,
                      !.filename = IF as_str(ev.filename) # None THEN ev.filename ELSE @]
      [] status = "success" /\ as_str(ev.path) = None ->
            [d EXCEPT !.status = "downloading",
                      !.progress = IF @ < ProgressConfirmed THEN ProgressConfirmed ELSE @]
      [] status = "error" ->
            [d EXCEPT !.status = "failed", !.error = as_str(ev.message)]
      [] status = "progress" ->
            IF progress_applies(d, ev)
            THEN [d EXCEPT !.progress = ev.progress, !.status = "downloading"]
            ELSE d
      [] OTHER ->
            [d EXCEPT !.status = "unknown", !.error = "Unknown status: " \o status]

\* the record synthesized for an id that has none (825-874)
synthesized_download(ev) ==
    LET status == status_of(ev) IN
    DownloadInfo(ev.downloadId, filename_of(ev), "",
        IF status = "progress"
        THEN (IF ev.progress = NoNumber THEN 0 ELSE ev.progress)
        ELSE 0,
        CASE status = "success" -> (IF ev.path # None THEN "completed" ELSE "downloading")
          [] status = "progress" -> "downloading"
          [] status = "error" -> "failed"
          [] OTHER -> "unknown",
        as_str(ev.path),
        IF status = "error" THEN as_str(ev.message) ELSE None,
        "webview2", None, FALSE, None, "idle", 0)

\* C14, mutant: an error event for an id without a record is discarded
synthesizes_without_error(ev) ==
    ev.downloadId # EmptyId /\ status_of(ev) \in {"success", "progress"}

\* C17, mutant: a record is synthesized whatever the status of the event
synthesizes_any_status(ev) == ev.downloadId # EmptyId

\* download_id.len() > 0 && status is success, error or progress (822-823)
synthesizes(ev) ==
    ev.downloadId # EmptyId /\ status_of(ev) \in {"success", "error", "progress"}

\* the registry after the if-let at 720-906
after_status(ds, ev) ==
    IF ev.downloadId \in DOMAIN ds
    THEN [ds EXCEPT ![ev.downloadId] = update_download(@, ev)]
    ELSE IF synthesizes(ev)
         THEN Insert(ds, ev.downloadId, synthesized_download(ev))
         ELSE ds

response_downloads(ds, ev) == after_status(after_start_notice(ds, ev), ev)

\* C18, mutant: every status but "progress" removes the token
response_tokens_unless_progress(tk, ev) ==
    IF status_of(ev) # "progress" THEN tk \ {ev.downloadId} ELSE tk

\* matches!(status, "success" | "error") removes the token (908-910)
response_tokens(tk, ev) ==
    IF status_of(ev) \in {"success", "error"} THEN tk \ {ev.downloadId} ELSE tk

\* what the handler emits, in order; dsk is the file while the handler runs:
\* it is written at the handler's end (912), after every emission
response_effects(dsk, ds, ev) ==
    LET id == ev.downloadId
        status == status_of(ev)
        ds1 == after_start_notice(ds, ev)
        ds2 == after_status(ds1, ev)
        first == IF registers_start(ds, ev)
                 THEN <<Emit("download-progress", id, dsk, ds1)>> ELSE <<>>
        second ==
            IF id \in DOMAIN ds1
            THEN CASE status = "success" /\ as_str(ev.path) # None ->
                        <<Emit("download-complete", id, dsk, ds2),
                          Notify("Download Complete", id, dsk, ds2)>>
                   [] status = "success" /\ as_str(ev.path) = None ->
                        <<Emit("download-progress", id, dsk, ds2)>>
                   [] status = "error" ->
                        <<Emit("download-error", id, dsk, ds2),
                          Notify("Download Failed", id, dsk, ds2)>>
                   [] status = "progress" ->
                        IF progress_applies(ds1[id], ev)
                        THEN <<Emit("download-progress", id, dsk, ds2)>> ELSE <<>>
                   [] OTHER -> <<Emit("download-error", id, dsk, ds2)>>
            ELSE IF synthesizes(ev)
                 THEN CASE status = "progress" ->
                              <<Emit("download-progress", id, dsk, ds2)>>
                        [] status = "success" /\ as_str(ev.path) # None ->
                              <<Emit("download-complete", id, dsk, ds2)>>
                        [] OTHER -> <<>>
                 ELSE <<>>
    IN  first \o second

(***************************************************************************)
(* Inputs                                                                  *)
(***************************************************************************)
Url == "http://x/file.zip"
Filename == "file.zip"
FilePath == "/tmp/file.zip"
OutputDir == "/tmp/out"
SaveOutcomes == {"ok", "create_failed", "write_failed"}

\* the status events the helper or the front end sends about id
EventsAbout(id) ==
    {Event(id, "success", NoNumber, p, f, None, st) :
        p \in {None, FilePath, NonStr}, f \in {None, Filename}, st \in BOOLEAN}
    \cup {Event(id, "error", NoNumber, p, None, m, st) :
        p \in {None, FilePath}, m \in {None, "disk full"}, st \in BOOLEAN}
    \cup {Event(id, "progress", n, None, None, None, st) :
        n \in {NoNumber, 50, 420, F32Inf}, st \in BOOLEAN}
    \cup {Event(id, s, NoNumber, None, None, None, st) :
        s \in {None, "paused"}, st \in BOOLEAN}

Events ==
    EventsAbout("d1")
    \cup {Event(EmptyId, s, NoNumber, None, None, None, FALSE) :
            s \in {"success", "error", "progress", "paused"}}
    \cup {Event(None, "error", NoNumber, None, None, "disk full", FALSE)}

(***************************************************************************)
(* Operations                                                              *)
(***************************************************************************)
Done(op, id, res) == [op |-> op, id |-> id, res |-> res]

\* one more operation of the run
Tick == ops < MaxOps /\ ops' = ops + 1

\* C33, mutant: the event is applied without looking for its downloadId
Respond_whatever_the_id(op, ev, io) ==
    /\ downloads' = response_downloads(downloads, ev)
    /\ tokens' = response_tokens(tokens, ev)
    /\ disk' = save_active_downloads_to_file(disk, downloads', io)
    /\ outbox' = response_effects(disk, downloads, ev)
    /\ last' = Done(op, ev.downloadId, SaveResult(io))

\* the body of webview2_response for the event ev, called as op
Respond(op, ev, io) ==
    IF ev.downloadId = None
    THEN /\ outbox' = <<Notify("Download Error", None, disk, downloads)>>
         /\ last' = Done(op, None, "Err(missing downloadId)")
         /\ UNCHANGED <<downloads, tokens, disk>>
    ELSE /\ downloads' = response_downloads(downloads, ev)
         /\ tokens' = response_tokens(tokens, ev)
         /\ disk' = save_active_downloads_to_file(disk, downloads', io)
         /\ outbox' = response_effects(disk, downloads, ev)
         /\ last' = Done(op, ev.downloadId, SaveResult(io))

\* a status event reaches webview2_response: invoked as a command by the front
\* end, or by a reader task for a stdout or stderr line that parses as JSON
webview2_response(ev, io) ==
    /\ Tick
    /\ UNCHANGED <<games, attached, rw, mx, pc>>
    /\ Respond("webview2_response", ev, io)
    /\ UNCHANGED <<signalled, helpers, reporting, unarchiving>>

\* a reader task reads a line that is no JSON: it is printed and dropped
reader_drops_line(h) ==
    /\ Tick
    /\ UNCHANGED <<games, attached, rw, mx, pc>>
    /\ helpers[h] > 0
    /\ last' = Done("reader_drops_line", h, "Ok")
    /\ outbox' = <<>>
    /\ UNCHANGED <<downloads, tokens, signalled, disk, helpers, reporting, unarchiving>>

\* CommandEvent::Error in the reader task of a helper started for h
reader_error(h, io) ==
    /\ Tick
    /\ UNCHANGED <<games, attached, rw, mx, pc>>
    /\ helpers[h] > 0
    /\ Respond("reader_error",
               Event(h, "error", NoNumber, None, None, ProcessErrorMsg, FALSE), io)
    /\ UNCHANGED <<signalled, helpers, reporting, unarchiving>>

\* C4, mutant: the check reports only for a record that is still Starting
should_report_error_if_starting(ds, id) ==
    IF id \in DOMAIN ds THEN ds[id].status = "starting" ELSE FALSE

\* the read-locked check of CommandEvent::Terminated (1319-1337)
should_report_error(ds, id) ==
    IF id \in DOMAIN ds
    THEN ds[id].status # "completed" /\ ds[id].status # "failed"
    ELSE FALSE

\* CommandEvent::Terminated(code): the helper started for h has exited and its
\* reader task checks, under the read lock, whether to report an error
terminated(h, code) ==
    /\ Tick
    /\ UNCHANGED <<games, attached, rw, mx, pc>>
    /\ helpers[h] > 0
    /\ helpers' = [helpers EXCEPT ![h] = @ - 1]
    /\ LET report == code # 0 /\ should_report_error(downloads, h) IN
       /\ reporting' = IF report THEN [reporting EXCEPT ![h] = @ + 1] ELSE reporting
       /\ last' = Done("terminated", h,
                       IF code = 0 THEN "exit 0"
                       ELSE IF report THEN "report" ELSE "no report")
    /\ outbox' = <<>>
    /\ UNCHANGED <<downloads, tokens, signalled, disk, unarchiving>>

\* the reader task reports the termination it decided to report (1339-1353)
report_termination(h, io) ==
    /\ Tick
    /\ UNCHANGED <<games, attached, rw, mx, pc>>
    /\ reporting[h] > 0
    /\ reporting' = [reporting EXCEPT ![h] = @ - 1]
    /\ Respond("report_termination",
               Event(h, "error", NoNumber, None, None, TerminatedMsg, FALSE), io)
    /\ UNCHANGED <<signalled, helpers, unarchiving>>

\* C21, mutant: the record start inserts does not keep the url
starting_download_without_url(url, filename, id) ==
    DownloadInfo(id, filename, "", 0, "starting", None, None, "webview2", None,
                 FALSE, None, "idle", 0)

\* the record start_webview2_download inserts (1201-1215)
starting_download(url, filename, id) ==
    DownloadInfo(id, filename, url, 0, "starting", None, None, "webview2", None,
                 FALSE, None, "idle", 0)

StartOutcomes ==
    {"no_download_dir", "create_failed", "write_failed", "binary_not_found",
     "spawn_failed", "emit_failed", "ok"}
StartSpawns == {"emit_failed", "ok"}
StartSaveOutcome(out) == IF out \in {"create_failed", "write_failed"} THEN out ELSE "ok"

\* start_webview2_download(url, filename, download_id); out is how far it gets:
\*   "no_download_dir"  get_download_dir or create_dir_all fails (1184-1192)
\*   "create_failed", "write_failed"  the save at 1219 fails
\*   "binary_not_found" (1257), "spawn_failed" (1271), "emit_failed" (1369), "ok"
start_webview2_download(url, filename, id, out) ==
    /\ Tick
    /\ UNCHANGED <<games, attached, rw, mx, pc>>
    /\ out \in StartSpawns => helpers[id] < MaxHelpers
    /\ IF out = "no_download_dir"
       THEN UNCHANGED <<downloads, tokens, signalled, disk, helpers>>
       ELSE /\ downloads' = Insert(downloads, id, starting_download(url, filename, id))
            /\ tokens' = tokens \cup {id}
            /\ signalled' = signalled \ {id}
            /\ disk' = save_active_downloads_to_file(disk, downloads', StartSaveOutcome(out))
            /\ helpers' = IF out \in StartSpawns
                          THEN [helpers EXCEPT ![id] = @ + 1] ELSE helpers
    /\ outbox' = IF out = "ok"
                 THEN <<Emit("start-webview2-download", id, disk', downloads')>>
                 ELSE <<>>
    /\ last' = Done("start", id, IF out = "ok" THEN "Ok" ELSE "Err(" \o out \o ")")
    /\ UNCHANGED <<reporting, unarchiving>>

\* what cancel does to the record of a download whose token it removed (970-974)
cancelled_download(d) ==
    [d EXCEPT !.status = "cancelled", !.progress = 0, !.error = CancelledMsg]

\* C8, mutant: cancel marks the record without looking for the token
cancel_downloads_unchecked(ds, tk, id) ==
    IF id \in DOMAIN ds
    THEN [ds EXCEPT ![id] = cancelled_download(@)]
    ELSE ds

\* C37, mutant: a cancel that finds its token marks every record
cancel_downloads_of_all(ds, tk, id) ==
    IF id \in tk /\ id \in DOMAIN ds
    THEN [k \in DOMAIN ds |-> cancelled_download(ds[k])]
    ELSE ds

\* downloads after cancel_active_download
cancel_downloads(ds, tk, id) ==
    IF id \in tk /\ id \in DOMAIN ds
    THEN [ds EXCEPT ![id] = cancelled_download(@)]
    ELSE ds

\* C9, mutant: cancel looks the token up and leaves it in the map
cancel_tokens_kept(tk, id) == tk

\* tokens after cancel_active_download: downloads.tokens.remove(&download_id)
cancel_tokens(tk, id) == tk \ {id}

CancelOutcomes ==
    {"binary_not_found", "spawn_failed", "emit_failed", "notify_failed",
     "create_failed", "write_failed", "ok"}
\* the outcomes in which cancel reaches its save at 1012
CancelSaves == {"create_failed", "write_failed", "ok"}

\* cancel_active_download(download_id); out is how far it gets once it has found
\* the token: the helper binary is missing (985), the spawn fails (998), the emit
\* fails (1004), the notification fails (1010), the save fails (1012), or "ok"
cancel_active_download(id, out) ==
    /\ Tick
    /\ UNCHANGED <<games, attached, rw, mx, pc>>
    /\ IF id \in tokens
       THEN /\ tokens' = cancel_tokens(tokens, id)
            /\ signalled' = signalled \cup {id}
            /\ downloads' = cancel_downloads(downloads, tokens, id)
            /\ disk' = IF out \in CancelSaves
                       THEN save_active_downloads_to_file(disk, downloads', out)
                       ELSE disk
            /\ outbox' =
                 (IF out \in CancelSaves \cup {"notify_failed"}
                  THEN <<Emit("cancel-download", id, disk, downloads')>> ELSE <<>>)
                 \o (IF out \in CancelSaves
                     THEN <<Notify("Download Cancelled", id, disk, downloads')>> ELSE <<>>)
            /\ last' = Done("cancel", id, IF out = "ok" THEN "Ok" ELSE "Err(" \o out \o ")")
            /\ UNCHANGED <<helpers, reporting, unarchiving>>
       ELSE /\ downloads' = cancel_downloads(downloads, tokens, id)
            /\ tokens' = tokens
            /\ last' = Done("cancel", id, "NotFound")
            /\ outbox' = <<>>
            /\ UNCHANGED <<signalled, disk, helpers, reporting, unarchiving>>

\* C20, mutant: the sibling path is not probed, the record is never extracted
manual_download_not_probed(id, filename, path, exists) ==
    DownloadInfo(id, filename, "", ProgressComplete, "completed", path, None, None, Now,
                 FALSE, None, "idle", 0)

\* the record register_manual_download inserts (1040-1067); exists is whether
\* the path "<path>_extracted" exists
manual_download(id, filename, path, exists) ==
    DownloadInfo(id, filename, "", ProgressComplete, "completed", path, None, None, Now,
                 exists,
                 IF exists THEN path \o "_extracted" ELSE None,
                 IF exists THEN "completed" ELSE "idle",
                 IF exists THEN ProgressComplete ELSE 0)

register_manual_download(id, filename, path, exists, io) ==
    /\ Tick
    /\ UNCHANGED <<games, attached, rw, mx, pc>>
    /\ downloads' = Insert(downloads, id, manual_download(id, filename, path, exists))
    /\ disk' = save_active_downloads_to_file(disk, downloads', io)
    /\ outbox' = <<>>
    /\ last' = Done("register_manual", id, SaveResult(io))
    /\ UNCHANGED <<tokens, signalled, helpers, reporting, unarchiving>>

\* the three updates of unarchive_file (89-92, 128-133, 164-167)
extraction_started(d) ==
    [d EXCEPT !.extraction_status = "extracting", !.extraction_progress = 0]
\* C23, mutant: the completed extraction marks the record without its path
extraction_completed_without_path(d, output_dir) ==
    [d EXCEPT !.extraction_status = "completed", !.extraction_progress = ProgressComplete,
              !.extracted = TRUE]
extraction_completed(d, output_dir) ==
    [d EXCEPT !.extraction_status = "completed", !.extraction_progress = ProgressComplete,
              !.extracted = TRUE, !.extracted_path = output_dir]
\* C38, mutant: a failed extraction also fails the download
extraction_failed_with_download(d) ==
    [d EXCEPT !.extraction_status = "failed", !.extraction_progress = 0,
              !.status = "failed", !.error = "Extraction failed"]
extraction_failed(d) ==
    [d EXCEPT !.extraction_status = "failed", !.extraction_progress = 0]

\* downloads after an update of unarchive_file, which changes the record only
\* if let Some(download) = downloads.downloads.get_mut(&download_id)
unarchive_downloads(ds, id, output_dir, stage) ==
    IF id \in DOMAIN ds
    THEN [ds EXCEPT ![id] =
            CASE stage = "extracting" -> extraction_started(@)
              [] stage = "completed" -> extraction_completed(@, output_dir)
              [] OTHER -> extraction_failed(@)]
    ELSE ds

\* unarchive_file up to the call of the archiver (73-94)
unarchive_file_begin(id, io) ==
    /\ Tick
    /\ UNCHANGED <<games, attached, rw, mx, pc>>
    /\ id \notin unarchiving
    /\ downloads' = unarchive_downloads(downloads, id, None, "extracting")
    /\ disk' = save_active_downloads_to_file(disk, downloads', io)
    /\ unarchiving' = IF io = "ok" THEN unarchiving \cup {id} ELSE unarchiving
    /\ outbox' = <<Emit("extraction-progress", id, disk, downloads)>>
    /\ last' = Done("unarchive_begin", id, SaveResult(io))
    /\ UNCHANGED <<tokens, signalled, helpers, reporting>>

\* unarchive_file after the archiver returned Ok (ok) or Err (110-173)
unarchive_file_end(id, output_dir, ok, io) ==
    /\ Tick
    /\ UNCHANGED <<games, attached, rw, mx, pc>>
    /\ id \in unarchiving
    /\ unarchiving' = unarchiving \ {id}
    /\ downloads' = unarchive_downloads(downloads, id, output_dir,
                                         IF ok THEN "completed" ELSE "failed")
    /\ disk' = save_active_downloads_to_file(disk, downloads', io)
    /\ outbox' = <<Emit("extraction-progress", id, disk, downloads)>>
                 \o (IF ok /\ io = "ok"
                     THEN <<Notify("Extraction Complete", id, disk', downloads')>>
                     ELSE <<>>)
    /\ last' = Done("unarchive_end", id,
                    IF io # "ok" THEN "Err(save)" ELSE IF ok THEN "Ok" ELSE "Err(archiver)")
    /\ UNCHANGED <<tokens, signalled, helpers, reporting>>

\* the CloseRequested window event saves the registry under the read lock (1478)
close_requested(io) ==
    /\ Tick
    /\ UNCHANGED <<games, attached, rw, mx, pc>>
    /\ disk' = save_active_downloads_to_file(disk, downloads, io)
    /\ outbox' = <<>>
    /\ last' = Done("close_requested", None, SaveResult(io))
    /\ UNCHANGED <<downloads, tokens, signalled, helpers, reporting, unarchiving>>

NoTasks == [i \in Ids |-> 0]

\* the application is started again: main loads the file, reconciles, and manages
\* the result; the tasks, tokens and helper readers of the old process are gone
main ==
    /\ Tick
    /\ UNCHANGED <<games, attached, rw, mx, pc>>
    /\ downloads' = initial_downloads(disk)
    /\ tokens' = loaded_tokens(disk)
    /\ signalled' = {}
    /\ helpers' = NoTasks
    /\ reporting' = NoTasks
    /\ unarchiving' = {}
    /\ outbox' = <<>>
    /\ last' = Done("main", None,
                    IF load_active_downloads_from_file(disk).ok THEN "Ok" ELSE "Err(load)")
    /\ UNCHANGED disk

(***************************************************************************)
(* The saved games list of AppState (main.rs 377-405, 1074-1154)           *)
(***************************************************************************)
DownloadedGameInfo(id, filename, path, extracted, extracted_path, downloaded_at, launch_config, icon_path) ==
    [id |-> id, filename |-> filename, path |-> path, extracted |-> extracted,
     extracted_path |-> extracted_path, downloaded_at |-> downloaded_at,
     launch_config |-> launch_config, icon_path |-> icon_path]

\* games.iter().find(|g| g.id == id): the index of the first game of id, 0 for None
find_game(gs, id) ==
    IF \E i \in 1..Len(gs) : gs[i].id = id
    THEN CHOOSE i \in 1..Len(gs) : gs[i].id = id /\ \A j \in 1..(i - 1) : gs[j].id # id
    ELSE 0

\* the DownloadedGameInfo save_games makes of one DownloadInfo of its input
\* (1090-1106): launch_config and icon_path are those of the existing game of
\* the same id, if there is one
converted_game(existing, game) ==
    LET i == find_game(existing, game.id) IN
    DownloadedGameInfo(game.id, game.filename,
                       IF game.path = None THEN "" ELSE game.path,
                       game.extracted, game.extracted_path, game.downloaded_at,
                       IF i = 0 THEN None ELSE existing[i].launch_config,
                       IF i = 0 THEN None ELSE existing[i].icon_path)

converted_games(existing, input) ==
    [i \in 1..Len(input) |-> converted_game(existing, input[i])]

\* save_games(games): the list is replaced by the converted input and saved
save_games(input) ==
    /\ Tick
    /\ games' = converted_games(games, input)
    /\ outbox' = <<>>
    /\ last' = Done("save_games", None, "Ok")
    /\ UNCHANGED <<attached, downloads, tokens, signalled, disk, helpers, reporting, unarchiving>>
    /\ UNCHANGED <<rw, mx, pc>>

\* the list after save_launch_config found the game at index i (392-394)
with_launch_config(gs, i, launch_config, icon_path) ==
    [gs EXCEPT ![i] = [@ EXCEPT !.launch_config = launch_config, !.icon_path = icon_path]]

\* save_launch_config(game_id, launch_config, icon_path)
save_launch_config(game_id, launch_config, icon_path) ==
    /\ Tick
    /\ LET i == find_game(games, game_id) IN
       IF i = 0
       THEN /\ last' = Done("save_launch_config", game_id, "Err(not found)")
            /\ UNCHANGED <<games, attached>>
       ELSE /\ games' = with_launch_config(games, i, launch_config, icon_path)
            /\ attached' = Insert(attached, game_id,
                                  [launch_config |-> launch_config, icon_path |-> icon_path])
            /\ last' = Done("save_launch_config", game_id, "Ok")
    /\ outbox' = <<>>
    /\ UNCHANGED <<downloads, tokens, signalled, disk, helpers, reporting, unarchiving>>
    /\ UNCHANGED <<rw, mx, pc>>

\* the filter of get_saved_games (1127-1140); gone are the ids of the games
\* whose files no longer exist
keeps_game(game, gone) ==
    LET path_exists == game.path = "" \/ game.id \notin gone
        extracted_path_exists ==
            \/ game.extracted_path = None
            \/ game.extracted_path = ""
            \/ game.id \notin gone
    IN  path_exists \/ extracted_path_exists

valid_games(gs, gone) == SelectSeq(gs, LAMBDA game : keeps_game(game, gone))

\* get_saved_games(): the games whose files are gone are pruned from the list;
\* what was attached to a pruned id is no longer attached
get_saved_games(gone) ==
    /\ Tick
    /\ games' = valid_games(games, gone)
    /\ attached' = [id \in {k \in DOMAIN attached : find_game(games', k) # 0 \/ find_game(games, k) = 0}
                      |-> attached[id]]
    /\ outbox' = <<>>
    /\ last' = Done("get_saved_games", None, "Ok")
    /\ UNCHANGED <<downloads, tokens, signalled, disk, helpers, reporting, unarchiving>>
    /\ UNCHANGED <<rw, mx, pc>>

GameIds == {"g1", "g2"}
LaunchConfigs == {"direct: game.exe", "custom: wine game.exe"}
IconPaths == {None, "/icons/g.png"}

\* the DownloadInfo of a game the front end passes to save_games: g1 is a
\* downloaded file, g2 a downloaded file that has been extracted
GameInput(id) == manual_download(id, Filename, FilePath, id = "g2")
GameLists ==
    {<<>>} \cup {<<GameInput(a)>> : a \in GameIds}
           \cup {<<GameInput(a), GameInput(b)>> : a \in GameIds, b \in GameIds}

NextGames ==
    \/ \E input \in GameLists : save_games(input)
    \/ \E id \in GameIds, c \in LaunchConfigs, icon \in IconPaths : save_launch_config(id, c, icon)
    \/ \E gone \in SUBSET GameIds : get_saved_games(gone)

(***************************************************************************)
(* The locks: RwLock<ActiveDownloads> and Mutex<AppState>                  *)
(*                                                                         *)
(* The handlers run step by step: a step takes or releases a lock, or      *)
(* makes one of the assignments a handler makes while it holds the lock.   *)
(* A task is a command or an event handler of the application that runs    *)
(* on its own thread; it is "idle" between two runs.                       *)
(***************************************************************************)
Cancel == "cancel_active_download"
Reader == "reader task"
Start == "start_webview2_download"
Viewer == "get_active_downloads"
Closer == "on_window_event"
Tasks == {Cancel, Reader, Start, Viewer, Closer}

Unlocked == [writers |-> {}, readers |-> {}]

\* C32, mutant: write() does not wait for the tasks that hold the lock
can_write_at_once(l) == TRUE

\* RwLock::write returns once no task holds the lock; RwLock::read once no task
\* holds it for writing; Mutex::lock once no task holds the mutex
can_write(l) == l.writers = {} /\ l.readers = {}
can_read(l) == l.writers = {}
can_lock(m) == m = {}

\* the guard that write() or read() returns, and its drop
write_guard(l, t) == [l EXCEPT !.writers = @ \cup {t}]
read_guard(l, t) == [l EXCEPT !.readers = @ \cup {t}]
dropped(l, t) == [writers |-> l.writers \ {t}, readers |-> l.readers \ {t}]

\* C39, mutant: the read guard of the Terminated check lives on after the check
checked_keeping_guard(l, t) == l

\* the lock after the block of the Terminated check, where its read guard is
\* dropped (1319-1337)
checked(l, t) == dropped(l, t)

\* the lock the task t is about to take where it is: the calls of write(),
\* read() and lock() in the handlers
Request(t) ==
    CASE t = Cancel /\ pc[t] = "idle" -> "write"        \* 963-966
      [] t = Reader /\ pc[t] = "idle" -> "read"         \* 1321
      [] t = Reader /\ pc[t] = "report" -> "write"      \* 1346, 669-671
      [] t = Start /\ pc[t] = "idle" -> "lock"          \* 1184, 569-572
      [] t = Start /\ pc[t] = "write" -> "write"        \* 1196-1198
      [] t = Viewer /\ pc[t] = "idle" -> "read"         \* 920-922
      [] t = Closer /\ pc[t] = "idle" -> "lock"         \* 1469
      [] t = Closer /\ pc[t] = "read" -> "read"         \* 1478
      [] OTHER -> "none"

\* the locks the task t holds
Holds(t) ==
    (IF t \in rw.writers \cup rw.readers THEN {"registry"} ELSE {})
    \cup (IF t \in mx THEN {"settings"} ELSE {})

Goto(t, to) == pc' = [pc EXCEPT ![t] = to]

\* what a step of a handler leaves alone besides what it names
Aside == <<reporting, unarchiving, outbox, last, ops, games, attached>>
\* and what the step a handler returns with leaves alone
AsideReturn == <<reporting, unarchiving, outbox, ops, games, attached>>

\* the task t, which is at at, takes the lock it asks for there and goes on at to
acquire(t, at, to) ==
    /\ pc[t] = at
    /\ Request(t) # "none"
    /\ CASE Request(t) = "write" -> can_write(rw) /\ rw' = write_guard(rw, t) /\ mx' = mx
         [] Request(t) = "read" -> can_read(rw) /\ rw' = read_guard(rw, t) /\ mx' = mx
         [] OTHER -> can_lock(mx) /\ mx' = mx \cup {t} /\ rw' = rw
    /\ Goto(t, to)

\* cancel_active_download("d1"), 963-1017
cancel_write ==
    /\ acquire(Cancel, "idle", "tokens.remove")
    /\ UNCHANGED <<downloads, tokens, signalled, disk, helpers>>
    /\ UNCHANGED Aside

\* if let Some(token) = downloads.tokens.remove(..) { token.cancel(); (968-969),
\* else the error is returned and the guard dropped (1015-1017)
cancel_remove ==
    /\ pc[Cancel] = "tokens.remove"
    /\ IF "d1" \in tokens
       THEN /\ tokens' = cancel_tokens(tokens, "d1")
            /\ signalled' = signalled \cup {"d1"}
            /\ Goto(Cancel, "status")
            /\ UNCHANGED <<rw, last>>
       ELSE /\ rw' = dropped(rw, Cancel)
            /\ Goto(Cancel, "idle")
            /\ last' = Done("cancel", "d1", "NotFound")
            /\ UNCHANGED <<tokens, signalled>>
    /\ UNCHANGED <<downloads, disk, helpers, mx>>
    /\ UNCHANGED AsideReturn

\* download.status = "cancelled" (971), download.progress = 0.0 (972),
\* download.error = Some("Download cancelled by user") (973)
cancel_assign ==
    /\ pc[Cancel] \in {"status", "progress", "error"}
    /\ downloads' =
         IF "d1" \in DOMAIN downloads
         THEN [downloads EXCEPT !["d1"] =
                 CASE pc[Cancel] = "status" -> [@ EXCEPT !.status = "cancelled"]
                   [] pc[Cancel] = "progress" -> [@ EXCEPT !.progress = 0]
                   [] OTHER -> [@ EXCEPT !.error = CancelledMsg]]
         ELSE downloads
    /\ Goto(Cancel, CASE pc[Cancel] = "status" -> "progress"
                      [] pc[Cancel] = "progress" -> "error"
                      [] OTHER -> "save")
    /\ UNCHANGED <<tokens, signalled, disk, helpers, rw, mx>>
    /\ UNCHANGED Aside

\* the command returns: with the registry saved (1012), or with the error of a
\* missing binary or a failed spawn (985, 998); the guard is dropped either way
cancel_return(saves) ==
    /\ pc[Cancel] = "save"
    /\ disk' = IF saves THEN save_active_downloads_to_file(disk, downloads, "ok") ELSE disk
    /\ rw' = dropped(rw, Cancel)
    /\ Goto(Cancel, "idle")
    /\ UNCHANGED <<downloads, tokens, signalled, helpers, mx>>
    /\ last' = Done("cancel", "d1", IF saves THEN "Ok" ELSE "Err(binary_not_found)")
    /\ UNCHANGED AsideReturn

\* the reader task of a helper of "d1" handles Terminated with a code other than
\* 0: it takes the read lock for its check (1318-1321)
reader_read ==
    /\ helpers["d1"] > 0
    /\ acquire(Reader, "idle", "check")
    /\ helpers' = [helpers EXCEPT !["d1"] = @ - 1]
    /\ UNCHANGED <<downloads, tokens, signalled, disk>>
    /\ UNCHANGED Aside

\* the check is made and its block is left (1322-1337)
reader_check ==
    /\ pc[Reader] = "check"
    /\ rw' = checked(rw, Reader)
    /\ Goto(Reader, IF should_report_error(downloads, "d1") THEN "report" ELSE "idle")
    /\ last' = IF should_report_error(downloads, "d1")
               THEN last ELSE Done("terminated", "d1", "no report")
    /\ UNCHANGED <<downloads, tokens, signalled, disk, helpers, mx>>
    /\ UNCHANGED AsideReturn

\* the report: webview2_response takes the write lock (1346, 669-671)
reader_write ==
    /\ acquire(Reader, "report", "error.status")
    /\ UNCHANGED <<downloads, tokens, signalled, disk, helpers>>
    /\ UNCHANGED Aside

\* the "error" arm: download.status = "failed" (765), download.error = the
\* message (766-769)
reader_assign ==
    /\ pc[Reader] \in {"error.status", "error.error"}
    /\ downloads' =
         IF "d1" \in DOMAIN downloads
         THEN [downloads EXCEPT !["d1"] =
                 IF pc[Reader] = "error.status"
                 THEN [@ EXCEPT !.status = "failed"]
                 ELSE [@ EXCEPT !.error = TerminatedMsg]]
         ELSE downloads
    /\ Goto(Reader, IF pc[Reader] = "error.status" THEN "error.error" ELSE "tokens.remove")
    /\ UNCHANGED <<tokens, signalled, disk, helpers, rw, mx>>
    /\ UNCHANGED Aside

\* downloads.tokens.remove(download_id) (908-910)
reader_remove ==
    /\ pc[Reader] = "tokens.remove"
    /\ tokens' = tokens \ {"d1"}
    /\ Goto(Reader, "save")
    /\ UNCHANGED <<downloads, signalled, disk, helpers, rw, mx>>
    /\ UNCHANGED Aside

\* the save and the return of webview2_response (912-913)
reader_return ==
    /\ pc[Reader] = "save"
    /\ disk' = save_active_downloads_to_file(disk, downloads, "ok")
    /\ rw' = dropped(rw, Reader)
    /\ Goto(Reader, "idle")
    /\ UNCHANGED <<downloads, tokens, signalled, helpers, mx>>
    /\ last' = Done("report_termination", "d1", "Ok")
    /\ UNCHANGED AsideReturn

\* start_webview2_download(Url, Filename, "d1"): get_download_dir locks the
\* settings (1184, 569-572)
start_lock ==
    /\ helpers["d1"] < MaxHelpers
    /\ acquire(Start, "idle", "download_dir")
    /\ UNCHANGED <<downloads, tokens, signalled, disk, helpers>>
    /\ UNCHANGED Aside

\* get_download_dir returns and its guard is dropped (573-577)
start_download_dir ==
    /\ pc[Start] = "download_dir"
    /\ mx' = mx \ {Start}
    /\ Goto(Start, "write")
    /\ UNCHANGED <<downloads, tokens, signalled, disk, helpers, rw>>
    /\ UNCHANGED Aside

\* the block at 1195-1220 takes the write lock
start_write ==
    /\ acquire(Start, "write", "downloads.insert")
    /\ UNCHANGED <<downloads, tokens, signalled, disk, helpers>>
    /\ UNCHANGED Aside

\* downloads.downloads.insert (1199-1216)
start_insert ==
    /\ pc[Start] = "downloads.insert"
    /\ downloads' = Insert(downloads, "d1", starting_download(Url, Filename, "d1"))
    /\ Goto(Start, "tokens.insert")
    /\ UNCHANGED <<tokens, signalled, disk, helpers, rw, mx>>
    /\ UNCHANGED Aside

\* downloads.tokens.insert (1217)
start_token ==
    /\ pc[Start] = "tokens.insert"
    /\ tokens' = tokens \cup {"d1"}
    /\ signalled' = signalled \ {"d1"}
    /\ Goto(Start, "save")
    /\ UNCHANGED <<downloads, disk, helpers, rw, mx>>
    /\ UNCHANGED Aside

\* the save, the end of the block (1219-1220) and the spawn of the helper with
\* its reader task (1266-1276)
start_return ==
    /\ pc[Start] = "save"
    /\ disk' = save_active_downloads_to_file(disk, downloads, "ok")
    /\ rw' = dropped(rw, Start)
    /\ helpers' = [helpers EXCEPT !["d1"] = @ + 1]
    /\ Goto(Start, "idle")
    /\ UNCHANGED <<downloads, tokens, signalled, mx>>
    /\ last' = Done("start", "d1", "Ok")
    /\ UNCHANGED AsideReturn

\* get_active_downloads() takes the read lock (920-922)
viewer_read ==
    /\ acquire(Viewer, "idle", "clone")
    /\ UNCHANGED <<downloads, tokens, signalled, disk, helpers>>
    /\ UNCHANGED Aside

\* the records are cloned and the guard is dropped (923-924)
viewer_return ==
    /\ pc[Viewer] = "clone"
    /\ rw' = dropped(rw, Viewer)
    /\ Goto(Viewer, "idle")
    /\ UNCHANGED <<downloads, tokens, signalled, disk, helpers, mx>>
    /\ last' = Done("get_active_downloads", None, "Ok")
    /\ UNCHANGED AsideReturn

\* CloseRequested: the settings are locked (1469)
closer_lock ==
    /\ acquire(Closer, "idle", "save_state")
    /\ UNCHANGED <<downloads, tokens, signalled, disk, helpers>>
    /\ UNCHANGED Aside

\* the settings are saved and the if let ends (1470-1477)
closer_save_state ==
    /\ pc[Closer] = "save_state"
    /\ mx' = mx \ {Closer}
    /\ Goto(Closer, "read")
    /\ UNCHANGED <<downloads, tokens, signalled, disk, helpers, rw>>
    /\ UNCHANGED Aside

\* the registry is locked for reading (1478)
closer_read ==
    /\ acquire(Closer, "read", "save")
    /\ UNCHANGED <<downloads, tokens, signalled, disk, helpers>>
    /\ UNCHANGED Aside

\* the registry is saved and the if let ends (1479-1488)
closer_return ==
    /\ pc[Closer] = "save"
    /\ disk' = save_active_downloads_to_file(disk, downloads, "ok")
    /\ rw' = dropped(rw, Closer)
    /\ Goto(Closer, "idle")
    /\ UNCHANGED <<downloads, tokens, signalled, helpers, mx>>
    /\ last' = Done("close_requested", None, "Ok")
    /\ UNCHANGED AsideReturn

NextLocks ==
    \/ cancel_write \/ cancel_remove \/ cancel_assign
    \/ \E saves \in BOOLEAN : cancel_return(saves)
    \/ reader_read \/ reader_check \/ reader_write \/ reader_assign
    \/ reader_remove \/ reader_return
    \/ start_lock \/ start_download_dir \/ start_write \/ start_insert
    \/ start_token \/ start_return
    \/ viewer_read \/ viewer_return
    \/ closer_lock \/ closer_save_state \/ closer_read \/ closer_return

(***************************************************************************)
(* Specification                                                           *)
(***************************************************************************)
ExitCodes == {0, 1}

\* the first start of the application: there is no file yet
Init ==
    /\ disk = NoFile
    /\ downloads = initial_downloads(NoFile)
    /\ tokens = {}
    /\ signalled = {}
    /\ helpers = NoTasks
    /\ reporting = NoTasks
    /\ unarchiving = {}
    /\ outbox = <<>>
    /\ last = Done("main", None, "Ok")
    /\ ops = 0
    /\ games = <<>>
    /\ attached = EmptyMap
    /\ rw = Unlocked
    /\ mx = {}
    /\ pc = [t \in Tasks |-> "idle"]

\* one operation; ios, starts and cancels are what the environment may do to a
\* save, to a start and to a cancel
Step(ios, starts, cancels) ==
    \/ \E ev \in Events, io \in ios : webview2_response(ev, io)
    \/ \E h \in Ids : reader_drops_line(h)
    \/ \E h \in Ids, io \in ios : reader_error(h, io)
    \/ \E h \in Ids, code \in ExitCodes : terminated(h, code)
    \/ \E h \in Ids, io \in ios : report_termination(h, io)
    \/ \E out \in starts : start_webview2_download(Url, Filename, "d1", out)
    \/ start_webview2_download(Url, Filename, Bystander, "binary_not_found")
    \/ \E id \in Ids, out \in cancels : cancel_active_download(id, out)
    \/ \E exists \in BOOLEAN, io \in ios :
          register_manual_download("d1", Filename, FilePath, exists, io)
    \/ \E io \in ios : unarchive_file_begin("d1", io)
    \/ \E ok \in BOOLEAN, io \in ios : unarchive_file_end("d1", OutputDir, ok, io)
    \/ \E io \in ios : close_requested(io)
    \/ main

\* every save succeeds; the helper binary is there or is missing
Next == Step({"ok"}, {"ok", "binary_not_found"}, {"ok", "binary_not_found"})

Spec == Init /\ [][Next]_vars

\* status events only, applied to the registry of a first start
NextEvents == \E ev \in Events : webview2_response(ev, "ok")

SpecEvents == Init /\ [][NextEvents]_vars

\* the commands on the saved games list
SpecGames == Init /\ [][NextGames]_vars

\* the operations that save the registry, each with every outcome of the save,
\* and restarts; the status events are one of each arm of the match on status
FaultEvents ==
    {Event("d1", "success", NoNumber, FilePath, None, None, FALSE),
     Event("d1", "error", NoNumber, None, None, "disk full", FALSE),
     Event("d1", "progress", 50, None, None, None, FALSE),
     Event("d1", "paused", NoNumber, None, None, None, FALSE)}

NextFaults ==
    \/ \E ev \in FaultEvents, io \in SaveOutcomes : webview2_response(ev, io)
    \/ \E out \in SaveOutcomes : start_webview2_download(Url, Filename, "d1", out)
    \/ \E io \in SaveOutcomes : reader_error("d1", io)
    \/ \E code \in ExitCodes : terminated("d1", code)
    \/ \E io \in SaveOutcomes : report_termination("d1", io)
    \/ \E out \in CancelSaves : cancel_active_download("d1", out)
    \/ \E exists \in BOOLEAN, io \in SaveOutcomes :
          register_manual_download("d1", Filename, FilePath, exists, io)
    \/ \E io \in SaveOutcomes : unarchive_file_begin("d1", io)
    \/ \E ok \in BOOLEAN, io \in SaveOutcomes : unarchive_file_end("d1", OutputDir, ok, io)
    \/ \E io \in SaveOutcomes : close_requested(io)
    \/ main

SpecFaults == Init /\ [][NextFaults]_vars

\* the handlers of one download, step by step, on their own threads
SpecLocks == Init /\ [][NextLocks]_vars

(***************************************************************************)
(* Claims                                                                  *)
(***************************************************************************)
\* the step is a call of webview2_response: as a command, for a JSON line, for a
\* process error or for a reported termination
EventOps == {"webview2_response", "reader_error", "report_termination"}
IsStep == ops' # ops
HasRecord(id) == id \in DOMAIN downloads

\* C1: in every reachable state a record whose status is Completed, Failed or
\* Cancelled has no cancellation handle registered for its id.
C1_TerminalHasNoHandle ==
    \A id \in DOMAIN downloads : downloads[id].status \in Terminal => id \notin tokens

\* C2: under status events applied to a fresh registry, once a record is
\* Completed, Failed or Cancelled no later event moves it to another status,
\* and its cancellation handle is absent from then on.
C2_TerminalIsSticky ==
    [][\A id \in DOMAIN downloads :
          (IsStep /\ downloads[id].status \in Terminal)
          => /\ id \in DOMAIN downloads'
             /\ downloads'[id].status = downloads[id].status
             /\ id \notin tokens']_vars

\* C3: across status events, cancel and helper exits the stored progress of a
\* record never decreases from one state to the next (start's reset to 0 is the
\* one exception, and start is none of these operations).
C3_ProgressNeverDecreases ==
    [][\A id \in DOMAIN downloads :
          (IsStep /\ last'.op \in EventOps \cup {"cancel", "terminated"}
                  /\ id \in DOMAIN downloads')
          => downloads'[id].progress >= downloads[id].progress]_vars

C5_Reconciled ==
    last.op = "main" =>
        LET loaded == loaded_downloads(disk) IN
        /\ DOMAIN downloads = DOMAIN loaded
        /\ \A k \in DOMAIN loaded :
              IF loaded[k].status \in InFlight
              THEN /\ downloads[k].status = "failed"
                   /\ downloads[k].error \notin {None, ""}
                   /\ [downloads[k] EXCEPT !.status = loaded[k].status,
                                           !.error = loaded[k].error] = loaded[k]
              ELSE downloads[k] = loaded[k]
        /\ \A k \in DOMAIN downloads : downloads[k].status \notin InFlight
        /\ cleanup_active_downloads(downloads) = downloads

\* C5, witness: main has reconciled a file that held a Downloading record and one
\* that is neither Starting nor Downloading
C5_Witness ==
    /\ last.op = "main"
    /\ \E k \in DOMAIN loaded_downloads(disk) :
          /\ loaded_downloads(disk)[k].status = "downloading"
          /\ downloads[k].status = "failed"
    /\ \E k \in DOMAIN loaded_downloads(disk) :
          /\ loaded_downloads(disk)[k].status \notin InFlight
          /\ downloads[k] = loaded_downloads(disk)[k]

\* C6: in every reachable state in which no task holds the write lock, the
\* downloads map in the file equals the downloads map in memory (every save of
\* the specification succeeds).
C6_FileEqualsMemory == disk.json = to_json(downloads)

\* C7: at the moment download-progress, download-complete or download-error is
\* emitted for a status event, the file already holds the record's new state.
C7_SavedBeforeEmit ==
    \A i \in 1..Len(outbox) :
        (/\ last.op \in EventOps
         /\ outbox[i].kind = "emit"
         /\ outbox[i].name \in {"download-progress", "download-complete", "download-error"})
        => outbox[i].saved

\* C8: cancel(id) with no cancellation handle registered for id returns NotFound
\* and leaves the records, the handles and the file unchanged, whatever the
\* status of the record of id.
C8_CancelWithoutHandle ==
    [][(IsStep /\ last'.op = "cancel" /\ last'.id \notin tokens)
       => /\ last'.res = "NotFound"
          /\ UNCHANGED <<downloads, tokens, disk>>]_vars

\* C8, witness: a cancel returned NotFound for an id that has a record
C8_Witness ==
    /\ last.op = "cancel"
    /\ last.res = "NotFound"
    /\ HasRecord(last.id)

\* C9: cancel(id) with a handle registered for id signals the handle, removes
\* it from the handle map and sets the record to Cancelled with a non-empty
\* user-triggered message; a cancel(id) after it, with the handle still absent,
\* returns NotFound.
C9_CancelWithHandle ==
    [][\A id \in Ids :
          (IsStep /\ last'.op = "cancel" /\ last'.id = id)
          => IF id \in tokens
             THEN /\ last'.res # "NotFound"
                  /\ id \in signalled'
                  /\ id \notin tokens'
                  /\ id \in DOMAIN downloads'
                  /\ downloads'[id].status = "cancelled"
                  /\ downloads'[id].error = CancelledMsg
                  /\ CancelledMsg \notin {None, ""}
             ELSE last'.res = "NotFound"]_vars

\* C9, witness: a cancel found the handle and the record is Cancelled
C9_Witness ==
    /\ last.op = "cancel"
    /\ last.res = "Ok"
    /\ HasRecord(last.id)
    /\ downloads[last.id].status = "cancelled"
    /\ last.id \in signalled
    /\ last.id \notin tokens

\* C10: after cancel(id) has succeeded, every later status event for id is
\* ignored: the record stays Cancelled and its fields are unchanged.
C10_EventsAfterCancelIgnored ==
    [][\A id \in DOMAIN downloads :
          (/\ IsStep
           /\ last'.op \in EventOps
           /\ last'.id = id
           /\ id \in signalled
           /\ downloads[id].status = "cancelled")
          => /\ id \in DOMAIN downloads'
             /\ downloads'[id] = downloads[id]]_vars

\* C11: for every registry the program reaches, persisting it and loading it
\* back succeeds and yields a downloads map equal to the one persisted, every
\* record and every field; and the registry main has loaded has no cancellation
\* handle.
C11_RoundTrip ==
    LET r == load_active_downloads_from_file(
                 save_active_downloads_to_file(disk, downloads, "ok"))
    IN  /\ r.ok
        /\ r.downloads = downloads
        /\ last.op = "main" => tokens = {}

\* the events of the model that carry an id, by the arm of the match on status
SuccessEvents == {ev \in Events : ev.downloadId # None /\ status_of(ev) = "success"}
ErrorEvents == {ev \in Events : ev.downloadId # None /\ status_of(ev) = "error"}
ProgressEvents == {ev \in Events : ev.downloadId # None /\ status_of(ev) = "progress"}
OtherEvents ==
    {ev \in Events :
        ev.downloadId # None /\ status_of(ev) \notin {"success", "error", "progress"}}

\* this step is webview2_response handling ev, every save succeeding
Handled(ev) ==
    /\ IsStep
    /\ last'.op = "webview2_response"
    /\ last'.id = ev.downloadId
    /\ webview2_response(ev, "ok")

\* C12: after webview2_response has handled an event with status "success" and
\* a path, whether the record of its id existed before or is synthesized from
\* the event, the record is Completed with progress 100.0, its path is the
\* event's path and its completion time is set.
C12_SuccessWithPath ==
    [][\A ev \in SuccessEvents :
          (/\ as_str(ev.path) # None
           /\ Handled(ev))
          => /\ ev.downloadId \in DOMAIN downloads'
             /\ downloads'[ev.downloadId].status = "completed"
             /\ downloads'[ev.downloadId].progress = ProgressComplete
             /\ downloads'[ev.downloadId].path = ev.path
             /\ downloads'[ev.downloadId].downloaded_at # None]_vars

\* C13: after webview2_response has handled an event with status "success" and
\* no path for a non-empty id, whether the record existed before or is
\* synthesized from the event, the record is Downloading with progress at least
\* 10.0, and the progress of a record that existed is not lowered.
C13_SuccessWithoutPath ==
    [][\A ev \in SuccessEvents :
          (/\ ev.path = None
           /\ ev.downloadId # EmptyId
           /\ Handled(ev))
          => /\ ev.downloadId \in DOMAIN downloads'
             /\ downloads'[ev.downloadId].status = "downloading"
             /\ downloads'[ev.downloadId].progress >= ProgressConfirmed
             /\ ev.downloadId \in DOMAIN downloads
                   => downloads'[ev.downloadId].progress
                          >= downloads[ev.downloadId].progress]_vars

\* C14: after an event with status "error" and the message m has been handled
\* for a non-empty id (sent to webview2_response, or made by the reader task
\* for a process error or a reported termination), the record of the id exists,
\* is Failed and its error is m; a record that did not exist is synthesized.
C14_ErrorFails ==
    [][/\ \A ev \in ErrorEvents :
            (/\ ev.message # None
             /\ ev.downloadId # EmptyId
             /\ Handled(ev))
            => /\ ev.downloadId \in DOMAIN downloads'
               /\ downloads'[ev.downloadId].status = "failed"
               /\ downloads'[ev.downloadId].error = ev.message
       /\ (IsStep /\ last'.op \in {"reader_error", "report_termination"})
            => /\ last'.id \in DOMAIN downloads'
               /\ downloads'[last'.id].status = "failed"
               /\ downloads'[last'.id].error =
                      IF last'.op = "reader_error" THEN ProcessErrorMsg
                                                   ELSE TerminatedMsg]_vars

\* C14, witness: an error event for an id without a record was handled, and the
\* record synthesized from it is Failed with the event's message
C14_Witness ==
    /\ ops = 1
    /\ last.op = "webview2_response"
    /\ outbox = <<>>
    /\ HasRecord("d1")
    /\ downloads["d1"].status = "failed"
    /\ downloads["d1"].error = "disk full"

\* C15: a "progress" event handled for an id that has a record sets the
\* record's progress to the event's value and its status to Downloading when
\* the value is strictly greater than the stored progress, and otherwise
\* leaves the record's progress and status unchanged; for an id without a
\* record that the same event creates through downloadStarted=true, the
\* progress becomes the event's value and the status Downloading.
C15_ProgressOnlyForward ==
    [][\A ev \in ProgressEvents :
          (ev.downloadId # EmptyId /\ Handled(ev))
          => IF ev.downloadId \in DOMAIN downloads
             THEN IF ev.progress # NoNumber
                     /\ ev.progress > downloads[ev.downloadId].progress
                  THEN /\ downloads'[ev.downloadId].progress = ev.progress
                       /\ downloads'[ev.downloadId].status = "downloading"
                  ELSE /\ downloads'[ev.downloadId].progress
                             = downloads[ev.downloadId].progress
                       /\ downloads'[ev.downloadId].status
                             = downloads[ev.downloadId].status
             ELSE (ev.downloadStarted /\ ev.progress # NoNumber)
                  => /\ downloads'[ev.downloadId].progress = ev.progress
                     /\ downloads'[ev.downloadId].status = "downloading"]_vars

\* C16: after an event with downloadStarted=true has been handled for a
\* non-empty id that had no record, the event being neither a success with a
\* path nor an error, the record of the id exists, is Downloading and its
\* progress is at least 0.1.
C16_StartNoticeDownloads ==
    [][\A ev \in (SuccessEvents \cup ProgressEvents) \cup OtherEvents :
          (/\ ev.downloadStarted
           /\ ev.downloadId # EmptyId
           /\ ev.downloadId \notin DOMAIN downloads
           /\ ~ (status_of(ev) = "success" /\ ev.path # None)
           /\ Handled(ev))
          => /\ ev.downloadId \in DOMAIN downloads'
             /\ downloads'[ev.downloadId].status = "downloading"
             /\ downloads'[ev.downloadId].progress >= ProgressStarted]_vars

\* the events of the model that carry an id and no downloadStarted=true
PlainEvents == {ev \in Events : ev.downloadId # None /\ ~ ev.downloadStarted}

\* the record of ev.downloadId is new and made of the event's fields, and every
\* other record is as before
SynthesizedFrom(ev) ==
    /\ DOMAIN downloads' = DOMAIN downloads \cup {ev.downloadId}
    /\ \A k \in DOMAIN downloads : downloads'[k] = downloads[k]
    /\ downloads'[ev.downloadId].id = ev.downloadId
    /\ downloads'[ev.downloadId].filename =
           IF ev.filename \in {None, NonStr} THEN "Unknown file" ELSE ev.filename
    /\ downloads'[ev.downloadId].path =
           IF ev.path \in {None, NonStr} THEN None ELSE ev.path
    /\ downloads'[ev.downloadId].status # "unknown"

C18_OtherStatusIsUnknown ==
    [][\A ev \in OtherEvents :
          (ev.downloadId \in DOMAIN downloads /\ Handled(ev))
          => /\ downloads'[ev.downloadId].status = "unknown"
             /\ downloads'[ev.downloadId].error \notin {None, ""}
             /\ downloads'[ev.downloadId].error = "Unknown status: " \o status_of(ev)
             /\ tokens' = tokens]_vars

\* C18, witness: an event with the status "paused" was handled for a download
\* that has a cancellation handle; the record is Unknown and the handle is kept
C18_Witness ==
    /\ last.op = "webview2_response"
    /\ HasRecord("d1")
    /\ downloads["d1"].status = "unknown"
    /\ downloads["d1"].error = "Unknown status: paused"
    /\ downloads["d1"].url = Url
    /\ "d1" \in tokens

\* the outward event that is labelled by a status
Label(status) ==
    CASE status = "downloading" -> "download-progress"
      [] status = "completed" -> "download-complete"
      [] status \in {"failed", "unknown"} -> "download-error"
      [] OTHER -> None

\* C19: every handled status event that changes the record of its id, or
\* synthesizes it, emits the outward event labelled by the record's new status,
\* and when the new status is Completed or Failed it also requests a
\* notification.
C19_TransitionsAnnounced ==
    [][\A id \in DOMAIN downloads' :
          (/\ IsStep
           /\ last'.op \in EventOps
           /\ last'.id = id
           /\ (id \notin DOMAIN downloads \/ downloads'[id] # downloads[id]))
          => /\ \E i \in 1..Len(outbox') :
                   /\ outbox'[i].kind = "emit"
                   /\ outbox'[i].id = id
                   /\ outbox'[i].name = Label(downloads'[id].status)
             /\ downloads'[id].status \in {"completed", "failed"}
                   => \E i \in 1..Len(outbox') :
                         outbox'[i].kind = "notify" /\ outbox'[i].id = id]_vars

\* C20: register_manual_download(id, filename, path) leaves a record of id
\* that is Completed with progress 100.0 and the path; when "<path>_extracted"
\* exists the record is extracted, its extracted path is that sibling, its
\* extraction status Completed and its extraction progress 100.0; when it does
\* not, the record is not extracted, has no extracted path, and its extraction
\* status is Idle with progress 0.0.
C20_ManualIsCompleted ==
    [][\A exists \in BOOLEAN :
          register_manual_download("d1", Filename, FilePath, exists, "ok")
          => /\ "d1" \in DOMAIN downloads'
             /\ downloads'["d1"].id = "d1"
             /\ downloads'["d1"].filename = Filename
             /\ downloads'["d1"].status = "completed"
             /\ downloads'["d1"].progress = ProgressComplete
             /\ downloads'["d1"].path = FilePath
             /\ IF exists
                THEN /\ downloads'["d1"].extracted = TRUE
                     /\ downloads'["d1"].extracted_path = "/tmp/file.zip_extracted"
                     /\ downloads'["d1"].extraction_status = "completed"
                     /\ downloads'["d1"].extraction_progress = ProgressComplete
                ELSE /\ downloads'["d1"].extracted = FALSE
                     /\ downloads'["d1"].extracted_path = None
                     /\ downloads'["d1"].extraction_status = "idle"
                     /\ downloads'["d1"].extraction_progress = 0]_vars

\* C20, witness: a download was registered by hand whose sibling path exists,
\* over a record that a start had left
C20_Witness ==
    /\ last.op = "register_manual"
    /\ HasRecord("d1")
    /\ downloads["d1"].extracted
    /\ downloads["d1"].extracted_path = "/tmp/file.zip_extracted"
    /\ "d1" \in tokens

C22_NoHandleAfterRestart ==
    /\ tokens = {}
    /\ [][/\ (IsStep /\ last'.op = "main") => tokens' = {}
          /\ \A id \in Ids :
                (IsStep /\ id \notin tokens /\ ~ (last'.op = "start" /\ last'.id = id))
                => /\ id \notin tokens'
                   /\ (last'.op = "cancel" /\ last'.id = id) => last'.res = "NotFound"]_vars

\* C22, witness: after a restart that found the record of a started download
\* in the file, a cancel of its id returned NotFound
C22_Witness ==
    /\ last.op = "cancel"
    /\ last.res = "NotFound"
    /\ HasRecord(last.id)
    /\ downloads[last.id].url = Url
    /\ downloads[last.id].status = "failed"
    /\ downloads[last.id].error = InterruptedMsg

\* C23: in every reachable state a record that is extracted has an extracted
\* path.
C23_ExtractedHasPath ==
    \A id \in DOMAIN downloads :
        downloads[id].extracted => downloads[id].extracted_path # None

\* C23, witness: unarchive_file has completed for a record, which is extracted
\* to the output directory
C23_Witness ==
    /\ last.op = "unarchive_end"
    /\ last.res = "Ok"
    /\ HasRecord(last.id)
    /\ downloads[last.id].extracted
    /\ downloads[last.id].extracted_path = OutputDir

\* C24: in every reachable state a record that has a path is Completed.
C24_PathOnlyOnCompleted ==
    \A id \in DOMAIN downloads :
        downloads[id].path # None => downloads[id].status = "completed"

\* C25: in every reachable state a record that has an error message is Failed
\* or Unknown.
C25_ErrorOnlyOnFailedOrUnknown ==
    \A id \in DOMAIN downloads :
        downloads[id].error # None => downloads[id].status \in {"failed", "unknown"}

\* the outcomes of a save that fails
SaveFailures == SaveOutcomes \ {"ok"}

\* C26: when the save of the registry fails in a status event, a start, a
\* manual registration, a cancel or an extraction update, the operation
\* returns an error and the change it made to the records and the handles in
\* memory stays applied.
C26_FailedSaveKeepsChange ==
    [][\A io \in SaveFailures :
          /\ \A ev \in FaultEvents :
                webview2_response(ev, io)
                => /\ last'.res = "Err(save)"
                   /\ downloads' = response_downloads(downloads, ev)
                   /\ tokens' = response_tokens(tokens, ev)
                   /\ status_of(ev) = "error"
                         => downloads'["d1"].status = "failed"
                   /\ (status_of(ev) = "error" /\ "d1" \in tokens) => "d1" \notin tokens'
          /\ (reader_error("d1", io) \/ report_termination("d1", io))
                => /\ last'.res = "Err(save)"
                   /\ downloads'["d1"].status = "failed"
          /\ start_webview2_download(Url, Filename, "d1", io)
                => /\ last'.res = "Err(" \o io \o ")"
                   /\ downloads'["d1"].status = "starting"
                   /\ downloads'["d1"].url = Url
                   /\ "d1" \in tokens'
          /\ \A exists \in BOOLEAN :
                register_manual_download("d1", Filename, FilePath, exists, io)
                => /\ last'.res = "Err(save)"
                   /\ downloads'["d1"].status = "completed"
                   /\ downloads'["d1"].path = FilePath
          /\ (cancel_active_download("d1", io) /\ "d1" \in tokens)
                => /\ last'.res = "Err(" \o io \o ")"
                   /\ "d1" \notin tokens'
                   /\ "d1" \in signalled'
                   /\ HasRecord("d1") => downloads'["d1"].status = "cancelled"
          /\ (unarchive_file_begin("d1", io) /\ HasRecord("d1"))
                => /\ last'.res = "Err(save)"
                   /\ downloads'["d1"].extraction_status = "extracting"
          /\ \A ok \in BOOLEAN :
                (unarchive_file_end("d1", OutputDir, ok, io) /\ HasRecord("d1"))
                => /\ last'.res = "Err(save)"
                   /\ downloads'["d1"].extraction_status =
                          IF ok THEN "completed" ELSE "failed"
                   /\ ok => downloads'["d1"].extracted]_vars

\* C26, witness: the write of the file failed in an error event for a started
\* download; the event returned an error, the record in memory is Failed by it,
\* its handle is removed, and the file is left truncated
C26_Witness ==
    /\ last.op = "webview2_response"
    /\ last.res = "Err(save)"
    /\ disk.state = "truncated"
    /\ HasRecord("d1")
    /\ downloads["d1"].url = Url
    /\ downloads["d1"].status = "failed"
    /\ downloads["d1"].error = "disk full"
    /\ "d1" \notin tokens

\* C27: after a start that failed because the helper binary is missing or could
\* not be spawned, the record of its id is not Starting with a cancellation
\* handle registered.
C27_FailedStartIsNotStarting ==
    (/\ last.op = "start"
     /\ last.res \in {"Err(binary_not_found)", "Err(spawn_failed)"})
    => ~ (/\ HasRecord(last.id)
          /\ downloads[last.id].status = "starting"
          /\ last.id \in tokens)

\* C28: after save_games, every game whose id was in the list before has the
\* launch_config and the icon_path that id had before; and whatever calls of
\* save_games came since save_launch_config attached a launch_config and an
\* icon_path to an id, a game of that id in the saved list has them.
C28_LaunchConfigKept ==
    [][(IsStep /\ last'.op = "save_games")
       => /\ \A i \in 1..Len(games') :
               find_game(games, games'[i].id) # 0
               => LET before == games[find_game(games, games'[i].id)] IN
                  /\ games'[i].launch_config = before.launch_config
                  /\ games'[i].icon_path = before.icon_path
          /\ \A i \in 1..Len(games') :
               games'[i].id \in DOMAIN attached'
               => /\ games'[i].launch_config = attached'[games'[i].id].launch_config
                  /\ games'[i].icon_path = attached'[games'[i].id].icon_path]_vars

\* C29: no operation removes a record: within a run the set of record ids only
\* grows, and the registry main manages after a restart has every id it loaded
\* from the file and no other.
C29_RecordsAreNeverRemoved ==
    [][IsStep
       => IF last'.op = "main"
          THEN DOMAIN downloads' = DOMAIN loaded_downloads(disk)
          ELSE DOMAIN downloads \subseteq DOMAIN downloads']_vars

\* C29, witness: after a restart the registry holds the records of two
\* downloads that the run before had started, one of them left in flight
C29_Witness ==
    /\ last.op = "main"
    /\ DOMAIN downloads = {"d1", "d2"}
    /\ downloads["d2"].error = InterruptedMsg

\* C30: a helper exit with a code other than 0 synthesizes an error event only
\* while the record is not terminal: when the record is already completed,
\* failed or cancelled the exit reports nothing, and the report of an exit
\* leaves such a record as it is (a cancelled record stays cancelled and keeps
\* the message of the cancel).
C30_TerminatedLeavesTerminalRecords ==
    [][\A id \in Ids :
          (/\ IsStep
           /\ last'.id = id
           /\ HasRecord(id)
           /\ downloads[id].status \in Terminal)
          => /\ (last'.op = "terminated" /\ last'.res # "exit 0")
                => last'.res = "no report"
             /\ last'.op = "report_termination"
                => downloads'[id] = downloads[id]]_vars

\* C31: a cancel that finds the handle of its id returns success and leaves the
\* file with the cancelled record, also when the cancellation instruction cannot
\* be delivered to a helper (the helper binary is missing): every save of Spec
\* succeeds, a missing binary is the one thing that goes wrong in a cancel.
C31_CancelSucceedsWithoutDelivery ==
    (last.op = "cancel" /\ last.res # "NotFound")
    => /\ last.res = "Ok"
       /\ HasRecord(last.id)
          => /\ downloads[last.id].status = "cancelled"
             /\ FileHolds(disk, downloads, last.id)

\* C33: a line of the helper that does not parse as JSON changes neither the
\* registry nor the file, and a JSON event without a downloadId is rejected
\* with an error while records, handles and file stay as they were.
C33_MalformedInputChangesNothing ==
    [][/\ (IsStep /\ last'.op = "reader_drops_line")
          => UNCHANGED <<downloads, tokens, disk>>
       /\ (IsStep /\ last'.op = "webview2_response" /\ last'.id = None)
          => /\ last'.res = "Err(missing downloadId)"
             /\ UNCHANGED <<downloads, tokens, disk>>]_vars

\* C33, witness: an event without a downloadId was rejected while the registry
\* held a record with its handle
C33_Witness ==
    /\ last.op = "webview2_response"
    /\ last.res = "Err(missing downloadId)"
    /\ HasRecord("d1")
    /\ "d1" \in tokens

\* C34: on a non-zero helper exit the check that the record is not terminal and
\* the application of the synthesized error are one atomic step with respect to
\* the other writers: the report of a termination never turns a record that is
\* completed at that moment into a failed one.
C34_ReportSparesCompleted ==
    [][(/\ IsStep
        /\ last'.op = "report_termination"
        /\ HasRecord(last'.id)
        /\ downloads[last'.id].status = "completed")
       => downloads'[last'.id].status = "completed"]_vars

\* C35: a download created by start stays cancellable while it is in flight:
\* whenever its record is starting or downloading and neither a cancel, nor a
\* manual registration, nor a restart has happened for the id since the start,
\* the id has a cancellation handle.  The record still has the url of the start
\* (a manual registration replaces it by one without url), a helper spawned for
\* the id is still read (a restart ends every reader task) and the handle of the
\* start has not been signalled (a cancel that finds it signals it; one that
\* does not find it changes nothing).
C35_InFlightIsCancellable ==
    \A id \in Ids :
        (/\ HasRecord(id)
         /\ downloads[id].status \in InFlight
         /\ downloads[id].url = Url
         /\ helpers[id] > 0
         /\ id \notin signalled)
        => id \in tokens

\* the progress events that carry a value of at most 100.0 and are no start notice
LateProgressEvents ==
    {ev \in ProgressEvents :
        /\ ev.progress # NoNumber
        /\ ev.progress <= ProgressComplete
        /\ ~ev.downloadStarted}

\* C36: once a record is completed with a path and progress 100.0, as a success
\* event with a path leaves it, a progress event with a value of at most 100.0
\* that is no start notice changes neither its status nor its progress.
C36_LateProgressIsIgnored ==
    [][\A ev \in LateProgressEvents :
          (/\ HasRecord(ev.downloadId)
           /\ downloads[ev.downloadId].status = "completed"
           /\ downloads[ev.downloadId].path # None
           /\ downloads[ev.downloadId].progress = ProgressComplete
           /\ Handled(ev))
          => /\ downloads'[ev.downloadId].status = "completed"
             /\ downloads'[ev.downloadId].progress = ProgressComplete]_vars

\* C36, witness: a status event was handled that emitted nothing, as only a
\* progress event that does not apply does, and the record it was about is the
\* one a success event with a path had completed
C36_Witness ==
    /\ last.op = "webview2_response"
    /\ last.id = "d1"
    /\ outbox = <<>>
    /\ HasRecord("d1")
    /\ downloads["d1"].status = "completed"
    /\ downloads["d1"].url = Url
    /\ downloads["d1"].path = FilePath
    /\ downloads["d1"].progress = ProgressComplete

\* the operations that are called for one download id
TargetedOps ==
    {"start", "cancel", "register_manual", "unarchive_begin", "unarchive_end",
     "reader_drops_line", "terminated"} \cup EventOps

\* C37: an operation that targets one download id (start, status event, cancel,
\* manual registration, extraction update, helper exit) leaves the record and
\* the cancellation handle of every other id as they were.
C37_OtherIdsUntouched ==
    [][(IsStep /\ last'.op \in TargetedOps)
       => \A id \in (DOMAIN downloads \cup DOMAIN downloads' \cup tokens \cup tokens')
                     \ {last'.id} :
             /\ id \in DOMAIN downloads <=> id \in DOMAIN downloads'
             /\ id \in DOMAIN downloads => downloads'[id] = downloads[id]
             /\ id \in tokens <=> id \in tokens']_vars

\* C37, witness: d1 was cancelled while d2 had a record and a handle, and d2
\* has them still
C37_Witness ==
    /\ last = Done("cancel", "d1", "Ok")
    /\ HasRecord("d1")
    /\ downloads["d1"].status = "cancelled"
    /\ HasRecord("d2")
    /\ downloads["d2"].status = "starting"
    /\ "d2" \in tokens

\* the extraction fields and the download fields of a record
ExtractionFields(d) ==
    <<d.extracted, d.extracted_path, d.extraction_status, d.extraction_progress>>
DownloadFields(d) == <<d.status, d.progress, d.path, d.error>>

\* C38: a status event applied to a record that exists leaves the extracted,
\* extracted_path, extraction_status and extraction_progress of the record as
\* they were; an extraction update leaves the status, progress, path and error
\* of every record as they were and creates no record.
C38_ExtractionAndDownloadApart ==
    [][/\ (IsStep /\ last'.op \in EventOps /\ HasRecord(last'.id))
          => ExtractionFields(downloads'[last'.id]) = ExtractionFields(downloads[last'.id])
       /\ (IsStep /\ last'.op \in {"unarchive_begin", "unarchive_end"})
          => /\ DOMAIN downloads' = DOMAIN downloads
             /\ \A id \in DOMAIN downloads :
                   DownloadFields(downloads'[id]) = DownloadFields(downloads[id])]_vars

\* C38, witness: a status event has failed the record of a download that
\* unarchive_file had extracted, and the record is extracted still
C38_Witness ==
    /\ last.op = "webview2_response"
    /\ HasRecord(last.id)
    /\ downloads[last.id].status = "failed"
    /\ downloads[last.id].extracted
    /\ downloads[last.id].extracted_path = OutputDir
    /\ downloads[last.id].extraction_status = "completed"

\* a record as whole operations leave it: what start inserts, what a cancel
\* makes of a record, what the report of a termination makes of it
Whole(d) ==
    /\ d.status = "starting" => d.progress = 0 /\ d.error = None
    /\ d.status = "cancelled" => d.progress = 0 /\ d.error = CancelledMsg
    /\ d.status = "failed" => d.error = TerminatedMsg

\* C32: records and handles are changed only by the task that holds the
\* registry lock for writing; at most one task holds it for writing, and none
\* holds it for reading meanwhile; so whenever no task is writing (and whenever
\* a reader looks) every record is as a sequence of whole operations leaves it,
\* with a handle exactly while it is starting.
C32_WritersAreAlone ==
    /\ [](/\ Cardinality(rw.writers) <= 1
          /\ rw.writers # {} => rw.readers = {}
          /\ rw.writers = {}
             => \A id \in DOMAIN downloads :
                   /\ Whole(downloads[id])
                   /\ id \in tokens <=> downloads[id].status = "starting")
    /\ [][(downloads' # downloads \/ tokens' # tokens)
          => \E t \in rw.writers : pc'[t] # pc[t]]_vars

\* C32, witness: cancel is in the middle of its assignments to the record, which
\* is cancelled without the message yet, while the reader task waits to write
\* its report and get_active_downloads waits to read
C32_Witness ==
    /\ rw.writers = {Cancel}
    /\ pc[Cancel] = "progress"
    /\ pc[Reader] = "report"
    /\ pc[Viewer] = "idle"
    /\ ~Whole(downloads["d1"])

\* C39: no task holds the registry lock and the settings lock at once, and no
\* task asks for a lock while it holds one (it neither takes the registry lock
\* again nor takes one lock inside the other), so every task that holds a lock
\* goes on to release it and no interleaving of the handlers deadlocks.
C39_LocksDoNotNest ==
    \A t \in Tasks :
        /\ Cardinality(Holds(t)) <= 1
        /\ Holds(t) # {} => Request(t) = "none"

\* C39, witness: start holds the settings lock for get_download_dir while cancel
\* holds the registry lock, and the reader task has made its check, dropped its
\* read guard and waits to write its report
C39_Witness ==
    /\ mx = {Start}
    /\ rw.writers = {Cancel}
    /\ pc[Reader] = "report"
    /\ Holds(Reader) = {}

====
